---- MODULE Spec2Model ----
(***************************************************************************)
(* Model of the data-derivation layer of F1Dashboard (src/utils.py,        *)
(* src/plots.py): corner segmentation of fastest-lap telemetry, the        *)
(* per-corner speed differential of two drivers, the strategy / merge      *)
(* dataset of the parallel-coordinates plot and the historical             *)
(* aggregations over the snapshot files.                                   *)
(*                                                                         *)
(* Every derivation is a function of its inputs, so each one is an         *)
(* operator computed the way the code computes it, and each specification  *)
(* draws the inputs in Init and applies the function in an action.         *)
(* A Python exception ends a call: results carry a field "raised" naming   *)
(* the exception ("" when the call returned).                              *)
(*                                                                         *)
(* Units: a Speed is an integer km/h; an average speed is kept in          *)
(* hundredths of km/h, which is what round(x, 2) leaves of the quotient.   *)
(***************************************************************************)
EXTENDS Integers, Sequences, FiniteSets, TLC

VARIABLES
    session,          \* corner engines: [telemetry: driver -> samples, corners]
    avg_speed_df,     \* driver -> result of get_avg_speed_between_corners
    speed_diff_df,    \* <<d1, d2>> -> result of get_avg_speed_diff_drivers
    event,            \* merge engine: [laps, drivers, quali_results, race_results]
    strategy_table,   \* df2 of get_parallel_coordinates_plot_dataset, deduplicated
    candidate_rows,   \* df2 as the loop of lines 398-405 leaves it
    sorted_merged_df, \* result of get_parallel_coordinates_plot_dataset
    snapshot,         \* historical engine: [schedule, race_winners, start_year, end_year]
    country_counts_df,\* result of get_country_counts_ISO
    team_wins,        \* the bar data of plot_race_wins_per_team
    runs,             \* the results of all calls so far, per aggregation
    clock,            \* event listing: what datetime.now() returns, in ticks
    calendar,         \* year -> the schedule fastf1 has for that year
    event_name_list,  \* result of events_of_last_n_year
    selection,        \* dashboard: the value of every dropdown and switch
    panels,           \* callback -> the outcome of its run on the selection
    module_values,    \* the names bound at module level in dashboard.py
    remembered,       \* one callback invocation, kept for comparison
    repeated,         \* the latest invocation of that callback on those arguments
    pending,          \* the callbacks Dash has requested and not yet answered
    carried,          \* session/driver dropdowns still holding an earlier event's value
    stale_runs        \* the callbacks that computed from such a value

cornerVars == <<session, avg_speed_df, speed_diff_df>>
eventVars == <<event, strategy_table, candidate_rows, sorted_merged_df>>
historyVars == <<snapshot, country_counts_df, team_wins, runs>>
listingVars == <<clock, calendar, event_name_list>>
dashVars == <<selection, panels>>
appVars == <<module_values, remembered, repeated>>
uiVars == <<pending, carried, stale_runs>>
vars == <<cornerVars, eventVars, historyVars, listingVars, dashVars, appVars, uiVars>>

(***************************************************************************)
(* Bounds of the model.                                                    *)
(***************************************************************************)
MaxDist == 4          \* distances along the lap are 0..MaxDist
MaxLen == 4           \* samples in one fastest-lap telemetry
MaxCorners == 3       \* corners of the circuit
MaxDistCmp == 3       \* the same bounds where two drivers are compared
MaxLenCmp == 3
MaxLaps == 4          \* lap records of the race, all drivers together
MaxStint == 2         \* stint numbers are 1..MaxStint
MaxEvents == 2        \* rows of the race calendar snapshot
MaxWins == 3          \* rows of the race winners snapshot
MaxYear == 2          \* seasons are 1..MaxYear, counted from the first one
MaxRuns == 2          \* calls of one aggregation on the same snapshot
TicksPerDay == 2      \* the clock counts fractions of a day
DaysPerYear == 2      \* race days of one season
NumYears == 3         \* the calendar covers the years 0..NumYears-1
MaxN == 2             \* n_years of events_of_last_n_year is 0..MaxN
Speeds == {100, 201}  \* km/h; 100,100,201 averages to 133.67 (rounding acts)

\* Python's None, for a value that is not there
None == "None"

NotCalled == [called |-> FALSE, raised |-> "", df |-> <<>>]

(***************************************************************************)
(* Generic helpers.                                                        *)
(***************************************************************************)
Range(s) == {s[i] : i \in DOMAIN s}

SeqsUpTo(S, n) == UNION {[1..k -> S] : k \in 0..n}

RECURSIVE SumSpeed(_, _)
SumSpeed(tel, I) ==
    IF I = {} THEN 0
    ELSE LET i == CHOOSE j \in I : TRUE IN tel[i].Speed + SumSpeed(tel, I \ {i})

(***************************************************************************)
(* The inputs of the corner engines.  lap.get_car_data().add_distance()    *)
(* yields at least one sample, in time order, with a cumulative and so     *)
(* non-decreasing Distance; circuit_info.corners lists the corners in      *)
(* track order with Number 1, 2, ... and increasing Distance.              *)
(***************************************************************************)
Samples(minDist, maxDist) == [Distance : minDist..maxDist, Speed : Speeds]

\* the laps of up to maxLen samples; strict: the distance grows at every sample
Telemetries(maxLen, minDist, maxDist, strict) ==
    {t \in SeqsUpTo(Samples(minDist, maxDist), maxLen) :
        /\ t # <<>>
        /\ \A i \in 1..(Len(t) - 1) :
              /\ t[i].Distance <= t[i + 1].Distance
              /\ strict => t[i].Distance < t[i + 1].Distance}

RECURSIVE CornersAt(_, _)
CornersAt(D, n) ==
    IF D = {} THEN <<>>
    ELSE LET m == CHOOSE d \in D : \A e \in D : d <= e
         IN <<[Number |-> n, Distance |-> m]>> \o CornersAt(D \ {m}, n + 1)

\* the circuits of up to MaxCorners corners at distances 1..maxDist
CornerLists(maxDist) ==
    {CornersAt(D, 1) : D \in {E \in SUBSET (1..maxDist) : Cardinality(E) <= MaxCorners}}

(***************************************************************************)
(* get_avg_speed_between_corners (src/utils.py:147-185).                   *)
(***************************************************************************)
\* round(avg_speed_accumulator / ticks, 2), in hundredths.  A tie (a third
\* decimal of exactly 5) needs ticks to be a multiple of 8, beyond MaxLen.
Round2(acc, ticks) == (200 * acc + ticks) \div (2 * ticks)

\* df.loc[label] = row: overwrite the row of that label, or append one.
DfLocSet(df, label, row) ==
    IF \E i \in DOMAIN df : df[i].index = label
    THEN [i \in DOMAIN df |-> IF df[i].index = label THEN row ELSE df[i]]
    ELSE Append(df, row)

\* line 175
PastCornerGE(tick, corner) == tick.Distance >= corner.Distance
PastCorner(tick, corner) == tick.Distance > corner.Distance

\* line 180
AfterStartGE(tick, start) == tick.Distance >= start
AfterStart(tick, start) == tick.Distance > start

\* the inner loop, lines 173-183, from sample i on
RECURSIVE TelemetryLoop(_, _, _, _)
TelemetryLoop(telemetry, i, corner, st) ==
    IF i > Len(telemetry) THEN st
    ELSE LET telemetry_tick == telemetry[i] IN
         IF PastCorner(telemetry_tick, corner)
         THEN IF st.ticks = 0
              THEN [st EXCEPT !.raised = "ZeroDivisionError"]
              ELSE [st EXCEPT
                      !.df = DfLocSet(st.df, corner.Number,
                                [index |-> corner.Number,
                                 avg_speed |-> Round2(st.avg_speed_accumulator, st.ticks),
                                 corner_number |-> corner.Number,
                                 start_dist |-> st.start,
                                 end_dist |-> st.end]),
                      !.averaged = Append(@, [corner_number |-> corner.Number,
                                              samples |-> st.counted]),
                      !.start = st.end]
         ELSE IF AfterStart(telemetry_tick, st.start)
              THEN TelemetryLoop(telemetry, i + 1, corner,
                     [st EXCEPT !.avg_speed_accumulator = @ + telemetry_tick.Speed,
                                !.ticks = @ + 1,
                                !.counted = @ \cup {i},
                                !.end = telemetry_tick.Distance])
              ELSE TelemetryLoop(telemetry, i + 1, corner, st)

\* the outer loop, lines 169-183, from corner k on
RECURSIVE CornerLoop(_, _, _, _)
CornerLoop(telemetry, corners, k, st) ==
    IF k > Len(corners) \/ st.raised # "" THEN st
    ELSE CornerLoop(telemetry, corners, k + 1,
            TelemetryLoop(telemetry, 1, corners[k],
                [st EXCEPT !.ticks = 0, !.avg_speed_accumulator = 0,
                           !.counted = {}]))

\* lines 163-168, before the first corner.  counted and averaged are not in
\* the code: they record which samples went into the accumulator of the
\* corner at hand, and into the average of every row written.
LoopStart ==
    [raised |-> "", df |-> <<>>, start |-> 0, end |-> 0,
     ticks |-> 0, avg_speed_accumulator |-> 0, counted |-> {}, averaged |-> <<>>]

\* per row written, the indices of the samples its average was taken over
AveragedSamples(sess, driver_abbr) ==
    CornerLoop(sess.telemetry[driver_abbr], sess.corners, 1, LoopStart).averaged

get_avg_speed_between_corners(sess, driver_abbr) ==
    LET st == CornerLoop(sess.telemetry[driver_abbr], sess.corners, 1, LoopStart)
    IN [called |-> TRUE, raised |-> st.raised,
        df |-> IF st.raised = "" THEN st.df ELSE <<>>]

(***************************************************************************)
(* Specification of the corner segmentation engine: one driver's fastest   *)
(* lap and a circuit are drawn, then the function is called.               *)
(***************************************************************************)
IdleEvent ==
    /\ event = [laps |-> <<>>, drivers |-> <<>>, quali_results |-> <<>>,
                race_results |-> <<>>]
    /\ strategy_table = <<>>
    /\ candidate_rows = <<>>
    /\ sorted_merged_df = NotCalled

IdleHistory ==
    /\ snapshot = [schedule |-> <<>>, race_winners |-> <<>>,
                   start_year |-> 1, end_year |-> 1]
    /\ country_counts_df = NotCalled
    /\ team_wins = NotCalled
    /\ runs = [countries |-> <<>>, teams |-> <<>>]

IdleListing ==
    /\ clock = 0
    /\ calendar = <<>>
    /\ event_name_list = [called |-> FALSE, n_years |-> 0, now |-> 0, list |-> <<>>]

IdleDashboard ==
    /\ selection = [event |-> None, session |-> None, driver1 |-> None,
                    driver2 |-> None, metric |-> None, mode |-> None,
                    start_year |-> None, end_year |-> None]
    /\ panels = <<>>

\* a callback that has not run
NotFired ==
    [fired |-> FALSE, raised |-> "", figure |-> "", options |-> <<>>,
     loads |-> 0, derived |-> FALSE]

\* dashboard.py:13-21
ModuleValues ==
    [events |-> <<"2024: Italian Grand Prix">>,
     initial_sessions |-> <<"Race", "Qualifying">>,
     session |-> [event |-> "2024: Italian Grand Prix", session |-> "Race"],
     driver_list |-> <<"NOL", "VER">>]

NoSession == [event |-> None, session |-> None]

NoRun ==
    [cb |-> "", args |-> <<>>, exc |-> "", outcome |-> NotFired, data |-> NoSession]

IdleApp ==
    /\ module_values = ModuleValues
    /\ remembered = NoRun
    /\ repeated = NoRun

IdleUi ==
    /\ pending = {}
    /\ carried = {}
    /\ stale_runs = {}

FastestLaps == Telemetries(MaxLen, 0, MaxDist, FALSE)

Circuits == CornerLists(MaxDist)

InitCorners ==
    /\ IdleEvent /\ IdleHistory /\ IdleListing /\ IdleDashboard /\ IdleApp /\ IdleUi
    /\ session \in [telemetry : [{"D1"} -> FastestLaps], corners : Circuits]
    /\ avg_speed_df = [d \in {"D1"} |-> NotCalled]
    /\ speed_diff_df = <<>>

CallAvgSpeed(d) ==
    /\ ~avg_speed_df[d].called
    /\ avg_speed_df' = [avg_speed_df EXCEPT ![d] = get_avg_speed_between_corners(session, d)]
    /\ UNCHANGED <<session, speed_diff_df, eventVars, historyVars, listingVars, dashVars, appVars, uiVars>>

NextCorners == \E d \in DOMAIN avg_speed_df : CallAvgSpeed(d)

SpecCorners == InitCorners /\ [][NextCorners]_vars

(***************************************************************************)
(* get_avg_speed_diff_drivers (src/utils.py:188-208).  A cell of the       *)
(* joined table is a value or NaN.                                         *)
(***************************************************************************)
Some(v) == [def |-> TRUE, val |-> v]
NaN == [def |-> FALSE, val |-> 0]

IndexOf(df) == [i \in DOMAIN df |-> df[i].index]

RowAt(df, label) == df[CHOOSE i \in DOMAIN df : df[i].index = label]

HasLabel(df, label) == \E i \in DOMAIN df : df[i].index = label

\* labels of s, in order, that satisfy keep
RECURSIVE SelectLabels(_, _)
SelectLabels(s, seen) ==
    IF s = <<>> THEN <<>>
    ELSE IF Head(s) \in seen THEN SelectLabels(Tail(s), seen)
         ELSE <<Head(s)>> \o SelectLabels(Tail(s), seen)

\* The row labels of pd.concat([df1, df2], axis=1): join="outer", the union
\* of the two indexes, df1's labels first.
ConcatIndexLeft(df1, df2) == IndexOf(df1)
ConcatIndex(df1, df2) ==
    IndexOf(df1) \o SelectLabels(IndexOf(df2), Range(IndexOf(df1)))

\* line 207: NaN when either operand is NaN
SubAbs(a, b) ==
    IF a.def /\ b.def
    THEN Some(IF a.val >= b.val THEN a.val - b.val ELSE b.val - a.val)
    ELSE NaN
Sub(a, b) == IF a.def /\ b.def THEN Some(a.val - b.val) ELSE NaN

\* lines 203-207 on the two aggregates.  The start_dist and end_dist columns
\* of both frames are carried through unread and are left out.
SpeedDiffFrame(df1, df2) ==
    LET idx == ConcatIndex(df1, df2) IN
    [i \in DOMAIN idx |->
        LET l == idx[i]
            a == IF HasLabel(df1, l) THEN Some(RowAt(df1, l).avg_speed) ELSE NaN
            b == IF HasLabel(df2, l) THEN Some(RowAt(df2, l).avg_speed) ELSE NaN
        IN [index |-> l,
            avg_speed1 |-> a,
            corner_number |-> IF HasLabel(df1, l) THEN Some(RowAt(df1, l).corner_number)
                              ELSE NaN,
            avg_speed2 |-> b,
            speed_diff |-> Sub(a, b)]]

\* driver_abbr1 # driver_abbr2: with one driver twice the renamed columns
\* collide, which is not modelled.
get_avg_speed_diff_drivers(sess, driver_abbr1, driver_abbr2) ==
    LET df1 == get_avg_speed_between_corners(sess, driver_abbr1)
        df2 == get_avg_speed_between_corners(sess, driver_abbr2)
    IN IF df1.raised # "" THEN [called |-> TRUE, raised |-> df1.raised, df |-> <<>>]
       ELSE IF df2.raised # "" THEN [called |-> TRUE, raised |-> df2.raised, df |-> <<>>]
       ELSE [called |-> TRUE, raised |-> "", df |-> SpeedDiffFrame(df1.df, df2.df)]

(***************************************************************************)
(* Specification of the comparative engine: two drivers' fastest laps on   *)
(* one circuit; the differential is called in either order of the drivers. *)
(* Here the distance grows at every sample, from a first sample past       *)
(* distance 0; samples at distance 0 or at equal distances are covered by  *)
(* SpecCorners.                                                            *)
(***************************************************************************)
DriverPairs == {<<"D1", "D2">>, <<"D2", "D1">>}

FastestLapsCmp == Telemetries(MaxLenCmp, 1, MaxDistCmp, TRUE)

CircuitsCmp == CornerLists(MaxDistCmp)

InitDiff ==
    /\ IdleEvent /\ IdleHistory /\ IdleListing /\ IdleDashboard /\ IdleApp /\ IdleUi
    /\ session \in [telemetry : [{"D1", "D2"} -> FastestLapsCmp], corners : CircuitsCmp]
    /\ avg_speed_df = <<>>
    /\ speed_diff_df = [p \in DriverPairs |-> NotCalled]

CallAvgSpeedDiff(a, b) ==
    /\ ~speed_diff_df[<<a, b>>].called
    /\ speed_diff_df' = [speed_diff_df EXCEPT
                            ![<<a, b>>] = get_avg_speed_diff_drivers(session, a, b)]
    /\ UNCHANGED <<session, avg_speed_df, eventVars, historyVars, listingVars, dashVars, appVars, uiVars>>

NextDiff == \E p \in DOMAIN speed_diff_df : CallAvgSpeedDiff(p[1], p[2])

SpecDiff == InitDiff /\ [][NextDiff]_vars

(***************************************************************************)
(* get_parallel_coordinates_plot_dataset (src/utils.py:358-432).           *)
(*                                                                         *)
(* The inputs: the race laps (one record per driver and lap, a stint being *)
(* a run of laps on one compound), session_race.drivers as abbreviations,  *)
(* and the Abbreviation columns of the qualifying and race results, each   *)
(* listing a driver at most once.                                          *)
(***************************************************************************)
Drivers == {"D1", "D2"}
Compounds == {"HARD", "SOFT"}

\* the order of sort for the strings of the model
DriverRank(d) == IF d = "D1" THEN 1 ELSE 2
CompoundRank(c) == IF c = "HARD" THEN 1 ELSE 2

NoDuplicates(s) == \A i, j \in DOMAIN s : s[i] = s[j] => i = j

Classifications == {s \in SeqsUpTo(Drivers, Cardinality(Drivers)) : NoDuplicates(s)}

\* laps listed driver by driver, each driver's laps in lap order
LapTables ==
    LET Keys == [Driver : Drivers, Stint : 1..MaxStint, Compound : Compounds]
        ok(s) ==
            /\ \A i \in 1..(Len(s) - 1) :
                  \/ DriverRank(s[i].Driver) < DriverRank(s[i + 1].Driver)
                  \/ /\ s[i].Driver = s[i + 1].Driver
                     /\ s[i].Stint <= s[i + 1].Stint
            /\ \A i, j \in DOMAIN s :
                  (s[i].Driver = s[j].Driver /\ s[i].Stint = s[j].Stint)
                      => s[i].Compound = s[j].Compound
        number(s) ==
            [i \in DOMAIN s |->
                [Driver |-> s[i].Driver, Stint |-> s[i].Stint,
                 Compound |-> s[i].Compound,
                 LapNumber |-> Cardinality({j \in 1..i : s[j].Driver = s[i].Driver})]]
    IN {number(s) : s \in {t \in SeqsUpTo(Keys, MaxLaps) : ok(t)}}

\* the rows of df that satisfy the mask, in order
RECURSIVE SelectRows(_, _)
SelectRows(df, driver) ==
    IF df = <<>> THEN <<>>
    ELSE IF Head(df).Driver = driver
         THEN <<Head(df)>> \o SelectRows(Tail(df), driver)
         ELSE SelectRows(Tail(df), driver)

\* lines 383-384: groupby sorts the groups by their keys, Driver then Stint
\* then Compound
KeyLessCompoundFirst(a, b) ==
    \/ DriverRank(a.Driver) < DriverRank(b.Driver)
    \/ /\ a.Driver = b.Driver
       /\ \/ CompoundRank(a.Compound) < CompoundRank(b.Compound)
          \/ a.Compound = b.Compound /\ a.Stint < b.Stint
KeyLess(a, b) ==
    \/ DriverRank(a.Driver) < DriverRank(b.Driver)
    \/ /\ a.Driver = b.Driver
       /\ \/ a.Stint < b.Stint
          \/ a.Stint = b.Stint /\ CompoundRank(a.Compound) < CompoundRank(b.Compound)

RECURSIVE SortKeys(_)
SortKeys(K) ==
    IF K = {} THEN <<>>
    ELSE LET m == CHOOSE k \in K : \A o \in K \ {k} : KeyLess(k, o)
         IN <<m>> \o SortKeys(K \ {m})

\* lines 382-385: one row per (Driver, Stint, Compound) with its lap count
GroupStints(laps) ==
    LET K == {[Driver |-> l.Driver, Stint |-> l.Stint, Compound |-> l.Compound] :
                l \in Range(laps)}
        keys == SortKeys(K)
    IN [i \in DOMAIN keys |->
          [Driver |-> keys[i].Driver, Stint |-> keys[i].Stint,
           Compound |-> keys[i].Compound,
           StintLength |-> Cardinality({j \in DOMAIN laps :
                              /\ laps[j].Driver = keys[i].Driver
                              /\ laps[j].Stint = keys[i].Stint
                              /\ laps[j].Compound = keys[i].Compound})]]

\* lines 389-392: the stints of the drivers of the session, driver by driver
RECURSIVE ConcatDriverStints(_, _)
ConcatDriverStints(stints, drivers) ==
    IF drivers = <<>> THEN <<>>
    ELSE SelectRows(stints, Head(drivers)) \o ConcatDriverStints(stints, Tail(drivers))

MaxOf(S) == CHOOSE m \in S : \A x \in S : x <= m

\* line 403
StopsNoMinus(df, driver) ==
    MaxOf({r.Stint : r \in Range(SelectRows(df, driver))})
Stops(df, driver) ==
    MaxOf({r.Stint : r \in Range(SelectRows(df, driver))}) - 1

\* line 404
CompoundStrategy(df, driver) ==
    LET rows == SelectRows(df, driver) IN [i \in DOMAIN rows |-> rows[i].Compound]

\* lines 398-405: one candidate row for every row of df, its Stops and
\* CompoundStrategy taken from all the rows of the driver; the stint and the
\* compound of the row itself (lines 400-401) are read and not used
StrategyRowsOwnStint(df) ==
    [i \in DOMAIN df |->
        [Driver |-> df[i].Driver,
         Stops |-> df[i].Stint - 1,
         CompoundStrategy |-> CompoundStrategy(df, df[i].Driver)]]

StrategyRows(df) ==
    [i \in DOMAIN df |->
        [Driver |-> df[i].Driver,
         Stops |-> Stops(df, df[i].Driver),
         CompoundStrategy |-> CompoundStrategy(df, df[i].Driver)]]

\* line 407: drop_duplicates(subset=["Driver"]) keeps the first row of a driver
RECURSIVE DropDuplicates(_, _)
DropDuplicates(df, seen) ==
    IF df = <<>> THEN <<>>
    ELSE IF Head(df).Driver \in seen THEN DropDuplicates(Tail(df), seen)
         ELSE <<Head(df)>> \o DropDuplicates(Tail(df), seen \cup {Head(df).Driver})

\* lines 382-405
CandidateRows(ev) ==
    StrategyRows(ConcatDriverStints(GroupStints(ev.laps), ev.drivers))

\* lines 382-407
StrategyTable(ev) == DropDuplicates(CandidateRows(ev), {})

\* lines 414 and 422: enumerate(results['Abbreviation'], 1)
EnumerateFrom0(results) == [i \in DOMAIN results |-> [Driver |-> results[i], Position |-> i - 1]]
Enumerate(results) == [i \in DOMAIN results |-> [Driver |-> results[i], Position |-> i]]

\* pd.merge(left, right, on="Driver"), how="inner": the rows of left in
\* order, each paired with the rows of right of the same Driver
RECURSIVE MatchRows(_, _)
MatchRows(l, right) ==
    IF right = <<>> THEN <<>>
    ELSE IF Head(right).Driver = l.Driver
         THEN <<[l |-> l, r |-> Head(right)]>> \o MatchRows(l, Tail(right))
         ELSE MatchRows(l, Tail(right))

RECURSIVE MergeLeft(_, _)
MergeLeft(left, right) ==
    IF left = <<>> THEN <<>>
    ELSE (IF \E i \in DOMAIN right : right[i].Driver = Head(left).Driver
          THEN MatchRows(Head(left), right)
          ELSE <<[l |-> Head(left), r |-> [Driver |-> Head(left).Driver, Position |-> 0]]>>)
         \o MergeLeft(Tail(left), right)

RECURSIVE MergeInner(_, _)
MergeInner(left, right) ==
    IF left = <<>> THEN <<>>
    ELSE MatchRows(Head(left), right) \o MergeInner(Tail(left), right)

Merge(left, right) == MergeInner(left, right)

\* the columns of the two merges, lines 426 and 427
JoinQuali(pairs) ==
    [i \in DOMAIN pairs |->
        [Driver |-> pairs[i].l.Driver, Stops |-> pairs[i].l.Stops,
         CompoundStrategy |-> pairs[i].l.CompoundStrategy,
         QualiPosition |-> pairs[i].r.Position]]

JoinRace(pairs) ==
    [i \in DOMAIN pairs |->
        [Driver |-> pairs[i].l.Driver, Stops |-> pairs[i].l.Stops,
         CompoundStrategy |-> pairs[i].l.CompoundStrategy,
         QualiPosition |-> pairs[i].l.QualiPosition,
         FinishPosition |-> pairs[i].r.Position]]

\* line 430: sort_values('QualiPosition'), by insertion
RECURSIVE SortValues(_)
SortValues(df) ==
    IF df = <<>> THEN <<>>
    ELSE LET rest == SortValues(Tail(df))
             before == SelectSeq(rest, LAMBDA r : r.QualiPosition < Head(df).QualiPosition)
             after == SelectSeq(rest, LAMBDA r : r.QualiPosition >= Head(df).QualiPosition)
         IN before \o <<Head(df)>> \o after

\* lines 410-432.  pd.DataFrame(data) of an empty list has no Driver column
\* and pd.merge(..., on="Driver") then raises KeyError.
get_parallel_coordinates_plot_dataset(ev) ==
    IF ev.quali_results = <<>> \/ ev.race_results = <<>>
    THEN [called |-> TRUE, raised |-> "KeyError", df |-> <<>>]
    ELSE LET qualifying_results == Enumerate(ev.quali_results)
             race_results == Enumerate(ev.race_results)
             merged_df == JoinRace(Merge(
                              JoinQuali(Merge(StrategyTable(ev), qualifying_results)),
                              race_results))
         IN [called |-> TRUE, raised |-> "", df |-> SortValues(merged_df)]

(***************************************************************************)
(* Specification of the merge engine: a race weekend is drawn, then the    *)
(* dataset is computed.                                                    *)
(***************************************************************************)
IdleCorners ==
    /\ session = [telemetry |-> <<>>, corners |-> <<>>]
    /\ avg_speed_df = <<>>
    /\ speed_diff_df = <<>>

InitEvent ==
    /\ IdleCorners /\ IdleHistory /\ IdleListing /\ IdleDashboard /\ IdleApp /\ IdleUi
    /\ event \in [laps : LapTables, drivers : Classifications,
                  quali_results : Classifications, race_results : Classifications]
    /\ strategy_table = <<>>
    /\ candidate_rows = <<>>
    /\ sorted_merged_df = NotCalled

CallParallelCoordinatesDataset ==
    /\ ~sorted_merged_df.called
    /\ strategy_table' = StrategyTable(event)
    /\ candidate_rows' = CandidateRows(event)
    /\ sorted_merged_df' = get_parallel_coordinates_plot_dataset(event)
    /\ UNCHANGED <<event, cornerVars, historyVars, listingVars, dashVars, appVars, uiVars>>

NextEvent == CallParallelCoordinatesDataset

SpecEvent == InitEvent /\ [][NextEvent]_vars

(***************************************************************************)
(* The historical aggregations: get_iso_code and get_country_counts_ISO    *)
(* (src/utils.py:307-355) and plot_race_wins_per_team                      *)
(* (src/plots.py:387-429).                                                 *)
(*                                                                         *)
(* A data frame is its set of columns and its rows: a column assigned cell *)
(* by cell inside a loop exists only once the loop has run for a row.      *)
(***************************************************************************)
Countries == {"France", "Germany", "Abu Dhabi"}
EventNames == {"Grand Prix", "Anniversary Grand Prix"}
Teams == {"Ferrari", "McLaren", "Tyrrell"}
Years == 1..MaxYear

\* pycountry.countries.lookup: the alpha-3 code, None on LookupError
get_iso_code(country_name) ==
    CASE country_name = "France" -> "FRA"
      [] country_name = "Germany" -> "DEU"
      [] OTHER -> None

\* fastf1.plotting.team_color: the colour of a team it knows, an exception
\* for any other name
team_color(team_name) ==
    CASE team_name = "Ferrari" -> [raised |-> FALSE, color |-> "#dc0000"]
      [] team_name = "McLaren" -> [raised |-> FALSE, color |-> "#ff8700"]
      [] OTHER -> [raised |-> TRUE, color |-> None]

\* the try of lines 415-420: 'white' when the lookup raises
TeamColor(team_name) ==
    IF team_color(team_name).raised THEN "white" ELSE team_color(team_name).color

\* lines 414-420: the loop sets the Color cell of every row
RECURSIVE ColorLoopAbort(_)
ColorLoopAbort(counts) ==
    IF counts = <<>> THEN <<>>
    ELSE IF team_color(Head(counts).value).raised
         THEN <<[Team |-> Head(counts).value, Wins |-> Head(counts).count,
                 Color |-> "white"]>>
              \o [i \in DOMAIN Tail(counts) |->
                    [Team |-> Tail(counts)[i].value, Wins |-> Tail(counts)[i].count,
                     Color |-> None]]
         ELSE <<[Team |-> Head(counts).value, Wins |-> Head(counts).count,
                 Color |-> team_color(Head(counts).value).color]>>
              \o ColorLoopAbort(Tail(counts))

RECURSIVE ColorLoop(_)
ColorLoop(counts) ==
    IF counts = <<>> THEN <<>>
    ELSE <<[Team |-> Head(counts).value, Wins |-> Head(counts).count,
            Color |-> TeamColor(Head(counts).value)]>>
         \o ColorLoop(Tail(counts))

\* lines 340 of utils.py and 402 of plots.py: both bounds inclusive
InRangeExclusive(year, start_year, end_year) == year >= start_year /\ year < end_year

InRange(year, start_year, end_year) == year >= start_year /\ year <= end_year

\* the distinct values of a sequence, in order of first appearance
RECURSIVE Unique(_, _)
Unique(s, seen) ==
    IF s = <<>> THEN <<>>
    ELSE IF Head(s) \in seen THEN Unique(Tail(s), seen)
         ELSE <<Head(s)>> \o Unique(Tail(s), seen \cup {Head(s)})

Occurrences(s, v) == Cardinality({i \in DOMAIN s : s[i] = v})

\* rows [value, count] by count descending, keeping the order of equal counts
RECURSIVE SortByCountDesc(_)
SortByCountDesc(rows) ==
    IF rows = <<>> THEN <<>>
    ELSE LET rest == SortByCountDesc(Tail(rows))
             before == SelectSeq(rest, LAMBDA r : r.count > Head(rows).count)
             after == SelectSeq(rest, LAMBDA r : r.count <= Head(rows).count)
         IN before \o <<Head(rows)>> \o after

\* Series.value_counts().reset_index(): one row per distinct value with the
\* number of rows that carry it, most frequent first
ValueCounts(values) ==
    LET u == Unique(values, {})
    IN SortByCountDesc([i \in DOMAIN u |->
                          [value |-> u[i], count |-> Occurrences(values, u[i])]])

get_country_counts_ISO(snap) ==
    LET df == SelectSeq(snap.schedule,
                  LAMBDA r : InRange(r.EventDate, snap.start_year, snap.end_year))
        counts == ValueCounts([i \in DOMAIN df |-> df[i].Country])
        \* lines 350-351: the loop sets the ISO cell of every row
        columns == {"Country", "Count"} \cup (IF counts = <<>> THEN {} ELSE {"ISO"})
        rows == [i \in DOMAIN counts |->
                    [Country |-> counts[i].value, Count |-> counts[i].count,
                     ISO |-> get_iso_code(counts[i].value)]]
    IN \* line 353: dropna(subset=['ISO'])
       IF "ISO" \notin columns
       THEN [called |-> TRUE, raised |-> "KeyError", df |-> <<>>]
       ELSE [called |-> TRUE, raised |-> "",
             df |-> SelectSeq(rows, LAMBDA r : r.ISO # None)]

plot_race_wins_per_team(snap) ==
    LET race_winners_df == SelectSeq(snap.race_winners,
                  LAMBDA r : InRange(r.Season, snap.start_year, snap.end_year))
        \* lines 405-409; sort_values leaves the value_counts order as it is
        counts == SortByCountDesc(
                      ValueCounts([i \in DOMAIN race_winners_df |-> race_winners_df[i].Team]))
        \* the Color column exists once the loop has run for a row
        columns == {"Team", "Wins"} \cup (IF counts = <<>> THEN {} ELSE {"Color"})
        rows == ColorLoop(counts)
    IN \* line 425: marker_color=team_wins['Color']
       IF "Color" \notin columns
       THEN [called |-> TRUE, raised |-> "KeyError", df |-> <<>>]
       ELSE [called |-> TRUE, raised |-> "", df |-> rows]

(***************************************************************************)
(* Specification of the historical engine: the two snapshot files and a    *)
(* year range are drawn, then each aggregation is called.  The files are   *)
(* never empty.  The two aggregations read different files, so one file at *)
(* a time is varied while the other holds a single row.                    *)
(***************************************************************************)
ScheduleTables ==
    SeqsUpTo([Country : Countries, EventDate : Years, EventName : EventNames],
             MaxEvents) \ {<<>>}

WinnerTables == SeqsUpTo([Season : Years, Team : Teams], MaxWins) \ {<<>>}

OneEvent == <<[Country |-> "France", EventDate |-> 1, EventName |-> "Grand Prix"]>>

OneWin == <<[Season |-> 1, Team |-> "Ferrari"]>>

InitHistory ==
    /\ IdleCorners /\ IdleEvent /\ IdleListing /\ IdleDashboard /\ IdleApp /\ IdleUi
    /\ \/ snapshot \in [schedule : ScheduleTables, race_winners : {OneWin},
                        start_year : Years, end_year : Years]
       \/ snapshot \in [schedule : {OneEvent}, race_winners : WinnerTables,
                        start_year : Years, end_year : Years]
    /\ country_counts_df = NotCalled
    /\ team_wins = NotCalled
    /\ runs = [countries |-> <<>>, teams |-> <<>>]

\* The functions read the files afresh at every call (utils.py:337,
\* plots.py:399) and write nothing back.
CallCountryCountsGrowing ==
    /\ Len(runs.countries) < MaxRuns
    /\ country_counts_df' = get_country_counts_ISO(snapshot)
    /\ runs' = [runs EXCEPT !.countries = Append(@, country_counts_df')]
    /\ snapshot' = [snapshot EXCEPT !.schedule = @ \o @]
    /\ UNCHANGED <<team_wins, cornerVars, eventVars, listingVars, dashVars, appVars, uiVars>>

CallCountryCounts ==
    /\ Len(runs.countries) < MaxRuns
    /\ country_counts_df' = get_country_counts_ISO(snapshot)
    /\ runs' = [runs EXCEPT !.countries = Append(@, country_counts_df')]
    /\ UNCHANGED <<snapshot, team_wins, cornerVars, eventVars, listingVars, dashVars, appVars, uiVars>>

CallRaceWinsPerTeam ==
    /\ Len(runs.teams) < MaxRuns
    /\ team_wins' = plot_race_wins_per_team(snapshot)
    /\ runs' = [runs EXCEPT !.teams = Append(@, team_wins')]
    /\ UNCHANGED <<snapshot, country_counts_df, cornerVars, eventVars, listingVars, dashVars, appVars, uiVars>>

NextHistory == CallCountryCounts \/ CallRaceWinsPerTeam

SpecHistory == InitHistory /\ [][NextHistory]_vars

(***************************************************************************)
(* Event listing: events_of_last_n_year (utils.py:78-101).                 *)
(* Time is counted in ticks, TicksPerDay to the day; an EventDate is the   *)
(* midnight that starts its day. One call is one step: the reads of the    *)
(* clock inside it (lines 89 and 98) all return the same instant.          *)
(***************************************************************************)
TicksPerYear == TicksPerDay * DaysPerYear

MaxClock == NumYears * TicksPerYear - 1

\* datetime.now().year
YearOf(now) == now \div TicksPerYear

\* timedelta(days=1)
timedelta_days_1 == TicksPerDay

\* list(reversed(range(lo, hi)))
ReversedRange(lo, hi) ==
    IF hi <= lo THEN <<>> ELSE [i \in 1..(hi - lo) |-> hi - i]

\* line 98: the event is over for more than a day
IsPastOrEqual(EventDate, now) == EventDate <= now - timedelta_days_1

IsPast(EventDate, now) == EventDate < now - timedelta_days_1

\* line 95: schedule.sort_values(by='EventDate', ascending=False)
RECURSIVE InsertByDateDesc(_, _)
InsertByDateDesc(row, sorted) ==
    IF sorted = <<>> THEN <<row>>
    ELSE IF row.EventDate > Head(sorted).EventDate THEN <<row>> \o sorted
    ELSE <<Head(sorted)>> \o InsertByDateDesc(row, Tail(sorted))

RECURSIVE SortByDateDesc(_)
SortByDateDesc(schedule) ==
    IF schedule = <<>> THEN <<>>
    ELSE InsertByDateDesc(Head(schedule), SortByDateDesc(Tail(schedule)))

\* lines 97-99: the rows of one year that pass the date test, as
\* "year: EventName"
RowLoop(year, schedule_sorted, now) ==
    LET kept == SelectSeq(schedule_sorted, LAMBDA row : IsPast(row.EventDate, now))
    IN [i \in DOMAIN kept |-> [year |-> year, EventName |-> kept[i].EventName]]

\* lines 91-99: the loop over the years
RECURSIVE YearLoop(_, _, _)
YearLoop(cal, years, now) ==
    IF years = <<>> THEN <<>>
    ELSE RowLoop(Head(years), SortByDateDesc(cal[Head(years)]), now)
         \o YearLoop(cal, Tail(years), now)

events_of_last_n_year(cal, now, n_years) ==
    LET current_year == YearOf(now)
    IN YearLoop(cal, ReversedRange(current_year - n_years, current_year + 1), now)

\* the race days of a year and the schedules fastf1 can have for it: events
\* on different days, in round order
DaysOf(year) == (year * DaysPerYear)..(year * DaysPerYear + DaysPerYear - 1)

RECURSIVE RoundsOn(_, _)
RoundsOn(days, round) ==
    IF days = {} THEN <<>>
    ELSE LET d == CHOOSE x \in days : \A y \in days : x <= y
         IN <<[EventName |-> round, EventDate |-> d * TicksPerDay]>>
            \o RoundsOn(days \ {d}, round + 1)

\* one calendar for every choice of the days on which there is an event
Calendars ==
    {[year \in 0..(NumYears - 1) |-> RoundsOn(days \cap DaysOf(year), 1)] :
        days \in SUBSET (0..(NumYears * DaysPerYear - 1))}

InitListing ==
    /\ IdleCorners /\ IdleEvent /\ IdleHistory /\ IdleDashboard /\ IdleApp /\ IdleUi
    /\ clock \in 0..MaxClock
    /\ calendar \in Calendars
    /\ event_name_list = [called |-> FALSE, n_years |-> 0, now |-> 0, list |-> <<>>]

\* nothing reads the clock once the list is made
Tick ==
    /\ ~event_name_list.called
    /\ clock < MaxClock
    /\ clock' = clock + 1
    /\ UNCHANGED <<calendar, event_name_list, cornerVars, eventVars, historyVars, dashVars, appVars, uiVars>>

\* seasons before the first one of the calendar are not asked for
CallEventsOfLastNYear(n_years) ==
    /\ ~event_name_list.called
    /\ n_years <= YearOf(clock)
    /\ event_name_list' = [called |-> TRUE, n_years |-> n_years, now |-> clock,
                           list |-> events_of_last_n_year(calendar, clock, n_years)]
    /\ UNCHANGED <<clock, calendar, cornerVars, eventVars, historyVars, dashVars, appVars, uiVars>>

NextListing == Tick \/ \E n_years \in 0..MaxN : CallEventsOfLastNYear(n_years)

SpecListing == InitListing /\ [][NextListing]_vars

(***************************************************************************)
(* The dashboard callbacks (src/dashboard.py:145-264).  A selection is the *)
(* value of every dropdown and switch, None where nothing is chosen; each  *)
(* callback is run on the selection and its outcome recorded: what it      *)
(* returned or raised, how many sessions it loaded and whether it derived  *)
(* anything from data.                                                     *)
(***************************************************************************)
EventChoices == {"2024: Italian Grand Prix", "2024: Cancelled Grand Prix"}

\* events for which fastf1 can supply no session
UnavailableEvents == {"2024: Cancelled Grand Prix"}

SessionChoices == {"Race", "Qualifying"}

DriverChoices == {"VER", "NOL"}

\* drivers without a valid lap in the session
NoValidLap == {"NOL"}

MetricChoices == {"Speed"}

ModeChoices == {"Driver1"}

YearChoices == {"1980"}

\* what fails when no fastest lap exists: pick_fastest() gives None and
\* get_car_data is missing on it, or pick_fastest() itself fails on the
\* empty lap table, depending on the fastf1 release
NoFastestLapErrors == {"AttributeError", "KeyError"}

Selections ==
    [event : EventChoices \cup {None}, session : SessionChoices \cup {None},
     driver1 : DriverChoices \cup {None}, driver2 : DriverChoices \cup {None},
     metric : MetricChoices \cup {None}, mode : ModeChoices \cup {None},
     start_year : YearChoices \cup {None}, end_year : YearChoices \cup {None}]

Callbacks ==
    {"update_drivers", "telemetry-comparison-graph", "speed-comparison-graph",
     "laptime-compound-graph", "race_per_country_map", "race_wins_per_team_map",
     "parallel-coordinates-graph"}

\* a callback that returned a figure / raised, after so many session loads
ReturnFigure(fig, loads, derived) ==
    [fired |-> TRUE, raised |-> "", figure |-> fig, options |-> <<>>,
     loads |-> loads, derived |-> derived]

Raise(exc, loads, derived) ==
    [fired |-> TRUE, raised |-> exc, figure |-> "", options |-> <<>>,
     loads |-> loads, derived |-> derived]

\* the truth value Python gives a dropdown value in an if
Truthy(value) == value # None /\ value # ""

\* utils.py:434-448
create_black_figure == "black"

\* utils.py:127-144: get_session and session.load(), nothing caught
load_session(event_name, session_name) ==
    IF event_name \in UnavailableEvents THEN [raised |-> "LoadError"]
    ELSE [raised |-> ""]

\* dashboard.py:167-174
update_drivers(sel) ==
    IF Truthy(sel.session) /\ Truthy(sel.event)
    THEN IF load_session(sel.event, sel.session).raised # ""
         THEN Raise(load_session(sel.event, sel.session).raised, 1, FALSE)
         ELSE [fired |-> TRUE, raised |-> "", figure |-> "",
               options |-> <<"NOL", "VER">>, loads |-> 1, derived |-> TRUE]
    ELSE [fired |-> TRUE, raised |-> "", figure |-> "", options |-> <<>>,
          loads |-> 0, derived |-> FALSE]

\* plots.py:7-89: the fastest laps are picked and read with no check
\* (lines 21-26), the metric column is read by name
plot_lap_telemetry_comparison(driver1, driver2, metric, exc) ==
    IF driver1 \in NoValidLap \/ driver2 \in NoValidLap THEN Raise(exc, 1, TRUE)
    ELSE IF metric = None THEN Raise("KeyError", 1, TRUE)
    ELSE ReturnFigure("telemetry comparison", 1, TRUE)

\* dashboard.py:185-190
update_graph_telemetry(sel, exc) ==
    IF Truthy(sel.driver1) /\ Truthy(sel.driver2) /\ Truthy(sel.session)
       /\ Truthy(sel.event)
    THEN IF load_session(sel.event, sel.session).raised # ""
         THEN Raise(load_session(sel.event, sel.session).raised, 1, FALSE)
         ELSE plot_lap_telemetry_comparison(sel.driver1, sel.driver2, sel.metric, exc)
    ELSE ReturnFigure(create_black_figure, 0, FALSE)

\* plots.py:91-164 with utils.py:159-160: the same unchecked fastest lap
plot_speed_diff_drivers(driver1, driver2, exc) ==
    IF driver1 \in NoValidLap \/ driver2 \in NoValidLap THEN Raise(exc, 1, TRUE)
    ELSE ReturnFigure("speed comparison", 1, TRUE)

\* dashboard.py:200-205
update_graph_speed(sel, exc) ==
    IF Truthy(sel.driver1) /\ Truthy(sel.driver2) /\ Truthy(sel.session)
       /\ Truthy(sel.event)
    THEN IF load_session(sel.event, sel.session).raised # ""
         THEN Raise(load_session(sel.event, sel.session).raised, 1, FALSE)
         ELSE plot_speed_diff_drivers(sel.driver1, sel.driver2, exc)
    ELSE ReturnFigure(create_black_figure, 0, FALSE)

\* dashboard.py:217-227
update_graph_laptime_no_mode(sel) ==
    IF Truthy(sel.driver1) /\ Truthy(sel.driver2) /\ Truthy(sel.session)
       /\ Truthy(sel.event)
    THEN IF load_session(sel.event, sel.session).raised # ""
         THEN Raise(load_session(sel.event, sel.session).raised, 1, FALSE)
         ELSE ReturnFigure("laptime compound", 1, TRUE)
    ELSE ReturnFigure(create_black_figure, 0, FALSE)

update_graph_laptime(sel) ==
    IF Truthy(sel.driver1) /\ Truthy(sel.driver2) /\ Truthy(sel.mode)
       /\ Truthy(sel.session) /\ Truthy(sel.event)
    THEN IF load_session(sel.event, sel.session).raised # ""
         THEN Raise(load_session(sel.event, sel.session).raised, 1, FALSE)
         ELSE ReturnFigure("laptime compound", 1, TRUE)
    ELSE ReturnFigure(create_black_figure, 0, FALSE)

\* dashboard.py:235-240
update_graph_country_map(sel) ==
    IF Truthy(sel.start_year) /\ Truthy(sel.end_year)
    THEN ReturnFigure("races per country", 0, TRUE)
    ELSE ReturnFigure(create_black_figure, 0, FALSE)

\* dashboard.py:248-252
update_graph_team_wins(sel) ==
    IF Truthy(sel.start_year) /\ Truthy(sel.end_year)
    THEN ReturnFigure("race wins per team", 0, TRUE)
    ELSE ReturnFigure(create_black_figure, 0, FALSE)

\* dashboard.py:260-264; the dataset loads the race session, the qualifying
\* session and the race session again (utils.py:372-373, 410-411, 419-420)
update_graph_parallel(sel) ==
    IF Truthy(sel.event)
    THEN IF sel.event \in UnavailableEvents THEN Raise("LoadError", 1, FALSE)
         ELSE ReturnFigure("parallel coordinates", 3, TRUE)
    ELSE ReturnFigure(create_black_figure, 0, FALSE)

InitDashboard ==
    /\ IdleCorners /\ IdleEvent /\ IdleHistory /\ IdleListing /\ IdleApp /\ IdleUi
    /\ selection \in Selections
    /\ panels = [cb \in Callbacks |-> NotFired]

Fire(cb, outcome) ==
    /\ ~panels[cb].fired
    /\ panels' = [panels EXCEPT ![cb] = outcome]
    /\ UNCHANGED <<selection, cornerVars, eventVars, historyVars, listingVars, appVars, uiVars>>

FireUpdateDrivers == Fire("update_drivers", update_drivers(selection))

FireTelemetry ==
    \E exc \in NoFastestLapErrors :
        Fire("telemetry-comparison-graph", update_graph_telemetry(selection, exc))

FireSpeed ==
    \E exc \in NoFastestLapErrors :
        Fire("speed-comparison-graph", update_graph_speed(selection, exc))

FireLaptime == Fire("laptime-compound-graph", update_graph_laptime(selection))

FireCountryMap == Fire("race_per_country_map", update_graph_country_map(selection))

FireTeamWins == Fire("race_wins_per_team_map", update_graph_team_wins(selection))

FireParallel == Fire("parallel-coordinates-graph", update_graph_parallel(selection))

NextDashboard ==
    \/ FireUpdateDrivers
    \/ FireTelemetry
    \/ FireSpeed
    \/ FireLaptime
    \/ FireCountryMap
    \/ FireTeamWins
    \/ FireParallel

SpecDashboard == InitDashboard /\ [][NextDashboard]_vars

(***************************************************************************)
(* Callbacks invoked in any order with any arguments, and the values the   *)
(* dashboard module binds when it is imported (src/dashboard.py:13-21).    *)
(* An invocation is recorded as the callback, its arguments, the outcome   *)
(* and the session its derivation was handed.  One invocation is           *)
(* remembered; when the same callback is invoked on the same arguments     *)
(* after it, that invocation is recorded next to it.                       *)
(***************************************************************************)
\* the parameters in the signature of every callback
Parameters(cb) ==
    CASE cb = "update_drivers" -> {"session", "event"}
      [] cb = "telemetry-comparison-graph" ->
            {"driver1", "driver2", "metric", "session", "event"}
      [] cb = "speed-comparison-graph" -> {"driver1", "driver2", "session", "event"}
      [] cb = "laptime-compound-graph" ->
            {"driver1", "driver2", "mode", "session", "event"}
      [] cb = "race_per_country_map" -> {"start_year", "end_year"}
      [] cb = "race_wins_per_team_map" -> {"start_year", "end_year"}
      [] cb = "parallel-coordinates-graph" -> {"event"}

\* every combination of values the components can hand to the callback
Arguments(cb) ==
    {[input \in Parameters(cb) |-> sel[input]] : sel \in Selections}

\* what the callback returns or raises on these arguments
Result(cb, args, exc) ==
    CASE cb = "update_drivers" -> update_drivers(args)
      [] cb = "telemetry-comparison-graph" -> update_graph_telemetry(args, exc)
      [] cb = "speed-comparison-graph" -> update_graph_speed(args, exc)
      [] cb = "laptime-compound-graph" -> update_graph_laptime(args)
      [] cb = "race_per_country_map" -> update_graph_country_map(args)
      [] cb = "race_wins_per_team_map" -> update_graph_team_wins(args)
      [] cb = "parallel-coordinates-graph" -> update_graph_parallel(args)

\* dashboard.py:169, 187, 202, 219: session = load_session(event_name,
\* session_name) binds a local name of the callback
LocalSession(cb, args) ==
    IF /\ cb \in {"update_drivers", "telemetry-comparison-graph",
                  "speed-comparison-graph", "laptime-compound-graph"}
       /\ Result(cb, args, "KeyError").loads > 0
       /\ load_session(args.event, args.session).raised = ""
    THEN [event |-> args.event, session |-> args.session]
    ELSE NoSession

InitCallbacks ==
    /\ IdleCorners /\ IdleEvent /\ IdleHistory /\ IdleListing /\ IdleDashboard
    /\ IdleApp /\ IdleUi

Matches(run, cb, args, exc) == run.cb = cb /\ run.args = args /\ run.exc = exc

Record(run) ==
    /\ remembered' \in IF remembered = NoRun THEN {NoRun, run} ELSE {remembered}
    /\ repeated' = IF Matches(remembered, run.cb, run.args, run.exc) THEN run
                   ELSE repeated

\* a callback that declares session global: it hands its derivation the
\* module's session and rebinds it after
InvokeGlobal(cb, args, exc) ==
    /\ Record([cb |-> cb, args |-> args, exc |-> exc,
               outcome |-> Result(cb, args, exc),
               data |-> IF LocalSession(cb, args) = NoSession THEN NoSession
                        ELSE module_values.session])
    /\ module_values' = IF LocalSession(cb, args) = NoSession THEN module_values
                        ELSE [module_values EXCEPT !.session = LocalSession(cb, args)]
    /\ UNCHANGED <<cornerVars, eventVars, historyVars, listingVars, dashVars, uiVars>>

Invoke(cb, args, exc) ==
    /\ Record([cb |-> cb, args |-> args, exc |-> exc,
               outcome |-> Result(cb, args, exc),
               data |-> LocalSession(cb, args)])
    /\ module_values' = module_values
    /\ UNCHANGED <<cornerVars, eventVars, historyVars, listingVars, dashVars, uiVars>>

NextCallbacks ==
    \E cb \in Callbacks : \E args \in Arguments(cb) : \E exc \in NoFastestLapErrors :
        Invoke(cb, args, exc)

SpecCallbacks == InitCallbacks /\ [][NextCallbacks]_vars

(***************************************************************************)
(* The dashboard in use: the user changes a dropdown, Dash requests the    *)
(* callbacks that have it as Input, and runs a requested callback once no  *)
(* other requested callback still has to write one of its Inputs or        *)
(* States.  A callback that raises leaves its output as it was.            *)
(* carried holds the session and driver dropdowns whose value was chosen   *)
(* under an earlier event; stale_runs the callbacks that computed from     *)
(* such a value.                                                           *)
(***************************************************************************)
AppCallbacks == Callbacks \cup {"update_sessions", "reset_dropdowns_on_event_change"}

\* the Input(...) of every @app.callback, dashboard.py:141-258
Inputs(cb) ==
    CASE cb = "update_sessions" -> {"event"}
      [] cb = "reset_dropdowns_on_event_change" -> {"event"}
      [] cb = "update_drivers" -> {"session"}
      [] OTHER -> Parameters(cb)

\* State('event-dropdown', 'value'), dashboard.py:165
States(cb) == IF cb = "update_drivers" THEN {"event"} ELSE {}

\* the Output(...) that are dropdown values, dashboard.py:151-153; every
\* other Output is an option list or a figure
Outputs(cb) ==
    IF cb = "reset_dropdowns_on_event_change" THEN {"session", "driver1", "driver2"}
    ELSE {}

\* the callbacks Dash requests when these dropdown values are written
TriggeredBy(inputs) == {cb \in AppCallbacks : Inputs(cb) \cap inputs # {}}

\* Dash runs a requested callback when no other requested callback writes
\* one of its Inputs or States
ReadyAtOnce(cb) == cb \in pending

Ready(cb) ==
    /\ cb \in pending
    /\ \A other \in pending \ {cb} :
          Outputs(other) \cap (Inputs(cb) \cup States(cb)) = {}

\* dashboard.py:145-147 with utils.py:104-124: nothing guards the event,
\* None has no split and fastf1 has no sessions for an unknown event
update_sessions(sel) ==
    IF sel.event = None THEN Raise("AttributeError", 0, FALSE)
    ELSE IF sel.event \in UnavailableEvents THEN Raise("LoadError", 0, FALSE)
    ELSE [fired |-> TRUE, raised |-> "", figure |-> "",
          options |-> <<"Race", "Qualifying">>, loads |-> 0, derived |-> TRUE]

\* dashboard.py:156-158
reset_dropdowns_on_event_change(sel) ==
    [sel EXCEPT !.session = None, !.driver1 = None, !.driver2 = None]

\* the layout, dashboard.py:50-130: the first event and its first session,
\* no driver, Speed, Driver1, the first and the last year
Layout ==
    [event |-> "2024: Italian Grand Prix", session |-> "Race", driver1 |-> None,
     driver2 |-> None, metric |-> "Speed", mode |-> "Driver1",
     start_year |-> "1980", end_year |-> "1980"]

\* the dropdowns of the sidebar the user changes here
UserInputs == {"event", "session", "driver1", "driver2"}

ChoicesOf(input) ==
    CASE input = "event" -> EventChoices \cup {None}
      [] input = "session" -> SessionChoices \cup {None}
      [] OTHER -> DriverChoices \cup {None}

\* page load: every callback is requested once
InitInteraction ==
    /\ IdleCorners /\ IdleEvent /\ IdleHistory /\ IdleListing /\ IdleApp
    /\ selection = Layout
    /\ panels = [cb \in AppCallbacks |-> NotFired]
    /\ pending = AppCallbacks
    /\ carried = {"session"}
    /\ stale_runs = {}

Select(input, value) ==
    /\ pending = {}
    /\ value # selection[input]
    /\ selection' = [selection EXCEPT ![input] = value]
    /\ pending' = TriggeredBy({input})
    /\ carried' = IF input = "event"
                  THEN {f \in {"session", "driver1", "driver2"} : selection[f] # None}
                  ELSE carried \ {input}
    /\ UNCHANGED <<panels, stale_runs>>
    /\ UNCHANGED <<cornerVars, eventVars, historyVars, listingVars, appVars>>

RunReset ==
    /\ Ready("reset_dropdowns_on_event_change")
    /\ selection' = reset_dropdowns_on_event_change(selection)
    /\ pending' = (pending \ {"reset_dropdowns_on_event_change"})
                     \cup TriggeredBy(Outputs("reset_dropdowns_on_event_change"))
    /\ carried' = {}
    /\ UNCHANGED <<panels, stale_runs>>
    /\ UNCHANGED <<cornerVars, eventVars, historyVars, listingVars, appVars>>

Answer(cb, outcome) ==
    /\ Ready(cb)
    /\ panels' = IF outcome.raised # "" THEN panels
                 ELSE [panels EXCEPT ![cb] = outcome]
    /\ pending' = pending \ {cb}
    /\ stale_runs' = IF outcome.loads > 0 /\ carried \cap Parameters(cb) # {}
                     THEN stale_runs \cup {cb} ELSE stale_runs
    /\ UNCHANGED <<selection, carried>>
    /\ UNCHANGED <<cornerVars, eventVars, historyVars, listingVars, appVars>>

RunUpdateSessions ==
    /\ Ready("update_sessions")
    /\ panels' = IF update_sessions(selection).raised # "" THEN panels
                 ELSE [panels EXCEPT !["update_sessions"] = update_sessions(selection)]
    /\ pending' = pending \ {"update_sessions"}
    /\ UNCHANGED <<selection, carried, stale_runs>>
    /\ UNCHANGED <<cornerVars, eventVars, historyVars, listingVars, appVars>>

RunCallback ==
    \E cb \in Callbacks : \E exc \in NoFastestLapErrors :
        Answer(cb, Result(cb, selection, exc))

NextInteraction ==
    \/ \E input \in UserInputs : \E value \in ChoicesOf(input) : Select(input, value)
    \/ RunReset
    \/ RunUpdateSessions
    \/ RunCallback

SpecInteraction == InitInteraction /\ [][NextInteraction]_vars

(***************************************************************************)
(* Claims about the corner segmentation engine (SpecCorners).              *)
(***************************************************************************)
Returned(r) == r.called /\ r.raised = ""

\* the samples of tel with lo < Distance <= hi, and with lo <= Distance < hi
IdxOpenClosed(tel, lo, hi) == {i \in DOMAIN tel : lo < tel[i].Distance /\ tel[i].Distance <= hi}
IdxClosedOpen(tel, lo, hi) == {i \in DOMAIN tel : lo <= tel[i].Distance /\ tel[i].Distance < hi}

PrevDistance(corners, k) == IF k = 1 THEN 0 ELSE corners[k - 1].Distance

\* C1 (as claimed): get_avg_speed_between_corners never aborts: whatever the
\* telemetry and the corners, a corner with no sample in its interval does
\* not end the call in a division by zero.
C1_NeverAborts ==
    \A d \in DOMAIN avg_speed_df :
        avg_speed_df[d].called => avg_speed_df[d].raised = ""

\* C2 (as claimed): a call that returns has exactly one row for each corner
\* of the circuit, the last corner included, with corner numbers ascending.
C2_OneRowPerCorner ==
    \A d \in DOMAIN avg_speed_df :
        Returned(avg_speed_df[d]) =>
            /\ Len(avg_speed_df[d].df) = Len(session.corners)
            /\ \A i \in DOMAIN avg_speed_df[d].df :
                  avg_speed_df[d].df[i].corner_number = session.corners[i].Number

\* C3 (as claimed): the average of corner k is the mean speed of exactly the
\* samples with prev <= Distance < cur (prev the previous corner's distance,
\* 0 for the first corner): a sample on the corner's distance goes to the
\* next corner.
C3_MeanOverClosedOpen ==
    \A d \in DOMAIN avg_speed_df :
        Returned(avg_speed_df[d]) =>
            \A i \in DOMAIN avg_speed_df[d].df :
                LET row == avg_speed_df[d].df[i]
                    k == row.corner_number
                    I == IdxClosedOpen(session.telemetry[d],
                            PrevDistance(session.corners, k), session.corners[k].Distance)
                IN /\ I # {}
                   /\ row.avg_speed = Round2(SumSpeed(session.telemetry[d], I), Cardinality(I))

\* C3 (amended): the average of corner k is the mean speed, rounded to two
\* decimals, of exactly the samples with prev < Distance <= cur (prev the
\* previous corner's reference distance, 0 for the first corner): a sample
\* on a corner's reference distance is counted for that corner, one at
\* distance 0 for none, and the lower bound is the previous corner's distance.
C3_MeanOverOpenClosed ==
    \A d \in DOMAIN avg_speed_df :
        Returned(avg_speed_df[d]) =>
            \A i \in DOMAIN avg_speed_df[d].df :
                LET row == avg_speed_df[d].df[i]
                    k == row.corner_number
                    I == IdxOpenClosed(session.telemetry[d],
                            PrevDistance(session.corners, k), session.corners[k].Distance)
                IN /\ I # {}
                   /\ row.avg_speed = Round2(SumSpeed(session.telemetry[d], I), Cardinality(I))

\* C3 witness: a call returned two rows for a lap that has a sample exactly
\* on the first corner's reference distance and one at distance 0.
C3_Witness ==
    \E d \in DOMAIN avg_speed_df :
        /\ Returned(avg_speed_df[d])
        /\ Len(avg_speed_df[d].df) >= 2
        /\ \E i \in DOMAIN session.telemetry[d] :
              session.telemetry[d][i].Distance = session.corners[1].Distance
        /\ \E i \in DOMAIN session.telemetry[d] : session.telemetry[d][i].Distance = 0

(***************************************************************************)
(* Claims about the comparative engine (SpecDiff).                         *)
(***************************************************************************)
Labels(df) == Range(IndexOf(df))

Aggregate(d) == get_avg_speed_between_corners(session, d).df

\* the example of the specification: averages 200/210/190 against
\* 195/215/185 over three corners, in hundredths
ExampleAggregate(avgs) ==
    [i \in 1..3 |-> [index |-> i, avg_speed |-> avgs[i], corner_number |-> i,
                     start_dist |-> 0, end_dist |-> 0]]

ExampleDiff ==
    SpeedDiffFrame(ExampleAggregate(<<20000, 21000, 19000>>),
                   ExampleAggregate(<<19500, 21500, 18500>>))

ExampleHolds ==
    /\ Len(ExampleDiff) = 3
    /\ \A i \in 1..3 : ExampleDiff[i].index = i
    /\ ExampleDiff[1].speed_diff = Some(500)
    /\ ExampleDiff[2].speed_diff = Some(0 - 500)
    /\ ExampleDiff[3].speed_diff = Some(500)

Neg(x) == IF x.def THEN Some(0 - x.val) ELSE NaN

\* C5: once the differential has been computed for (A, B) and for (B, A), the
\* two either both raised, or cover the same corner numbers and, corner by
\* corner, the speed_diff of one is the negation of the other's (undefined
\* where the other is undefined).
C5_Antisymmetry ==
    \A p \in DOMAIN speed_diff_df :
        LET q == <<p[2], p[1]>>
            ab == speed_diff_df[p]
            ba == speed_diff_df[q]
        IN (ab.called /\ ba.called) =>
              /\ (ab.raised = "") <=> (ba.raised = "")
              /\ Labels(ab.df) = Labels(ba.df)
              /\ \A l \in Labels(ab.df) :
                    RowAt(ab.df, l).speed_diff = Neg(RowAt(ba.df, l).speed_diff)

\* C5 witness: both orders returned, with a non-zero difference at a corner
\* and a corner that only one of the two drivers' aggregates has.
C5_Witness ==
    /\ \A p \in DOMAIN speed_diff_df : Returned(speed_diff_df[p])
    /\ \E i \in DOMAIN speed_diff_df[<<"D1", "D2">>].df :
          /\ speed_diff_df[<<"D1", "D2">>].df[i].speed_diff.def
          /\ speed_diff_df[<<"D1", "D2">>].df[i].speed_diff.val > 0
    /\ \E i \in DOMAIN speed_diff_df[<<"D1", "D2">>].df :
          ~speed_diff_df[<<"D1", "D2">>].df[i].speed_diff.def

(***************************************************************************)
(* Claims about the strategy and merge engines (SpecEvent).                *)
(***************************************************************************)
LapsOf(d) == {l \in Range(event.laps) : l.Driver = d}

StintsOf(d) == {l.Stint : l \in LapsOf(d)}

\* the three sources of the merge: a driver of the session with a grouped
\* stint, a driver classified in qualifying, a driver classified in the race
InStrategy(d) == d \in Range(event.drivers) /\ LapsOf(d) # {}
InQuali(d) == d \in Range(event.quali_results)
InRace(d) == d \in Range(event.race_results)

PositionIn(results, d) == CHOOSE i \in DOMAIN results : results[i] = d

Min3(a, b, c) == CHOOSE m \in {a, b, c} : \A x \in {a, b, c} : m <= x

\* the example of the specification: stint numbers 1,1,1,2,2,3,3,3,3
ExampleLaps ==
    LET stint == <<1, 1, 1, 2, 2, 3, 3, 3, 3>>
    IN [i \in 1..9 |-> [Driver |-> "D1", Stint |-> stint[i],
                        Compound |-> IF stint[i] = 1 THEN "SOFT" ELSE "HARD",
                        LapNumber |-> i]]

ExampleStrategy ==
    StrategyTable([laps |-> ExampleLaps, drivers |-> <<"D1">>,
                   quali_results |-> <<"D1">>, race_results |-> <<"D1">>])

\* C6: every row of the strategy table has Stops = the largest stint number
\* among that driver's lap records, minus one, and Stops >= 0; stint numbers
\* 1,1,1,2,2,3,3,3,3 give Stops = 2.
C6_StopsIsMaxStintMinusOne ==
    /\ Len(ExampleStrategy) = 1 /\ ExampleStrategy[1].Stops = 2
    /\ sorted_merged_df.called =>
          /\ \A i \in DOMAIN strategy_table :
                /\ strategy_table[i].Stops
                      = MaxOf(StintsOf(strategy_table[i].Driver)) - 1
                /\ strategy_table[i].Stops >= 0
          /\ \A i \in DOMAIN sorted_merged_df.df :
                sorted_merged_df.df[i].Stops
                    = MaxOf(StintsOf(sorted_merged_df.df[i].Driver)) - 1

\* C6 witness: the table has a driver who stopped and a driver who did not.
C6_Witness ==
    /\ sorted_merged_df.called
    /\ \E i, j \in DOMAIN strategy_table :
          strategy_table[i].Stops = 0 /\ strategy_table[j].Stops >= 1

\* C7: no row of the dataset is for a driver missing from the strategy table,
\* from the qualifying results or from the race results, and the dataset has
\* at most as many rows as the smallest of the three.
C7_InnerJoinLaw ==
    sorted_merged_df.called =>
        /\ \A i \in DOMAIN sorted_merged_df.df :
              LET d == sorted_merged_df.df[i].Driver
              IN /\ \E j \in DOMAIN strategy_table : strategy_table[j].Driver = d
                 /\ InStrategy(d) /\ InQuali(d) /\ InRace(d)
        /\ Len(sorted_merged_df.df)
              <= Min3(Len(strategy_table), Len(event.quali_results),
                      Len(event.race_results))

\* C7 witness: the dataset has a row while another driver is in the strategy
\* table and the race results but not in the qualifying results.
C7_Witness ==
    /\ Returned(sorted_merged_df)
    /\ Len(sorted_merged_df.df) = 1
    /\ \E d \in Drivers : InStrategy(d) /\ InRace(d) /\ ~InQuali(d)

\* C8: the dataset has exactly one row for every driver present in all three
\* sources; its QualiPosition and FinishPosition are the driver's 1-based
\* positions in the qualifying and race classifications; the rows are in
\* ascending QualiPosition.
C8_OneRowPerCommonDriver ==
    sorted_merged_df.called =>
        LET out == sorted_merged_df.df IN
        /\ \A d \in Drivers :
              (InStrategy(d) /\ InQuali(d) /\ InRace(d)) =>
                  /\ Cardinality({i \in DOMAIN out : out[i].Driver = d}) = 1
                  /\ \A i \in DOMAIN out :
                        out[i].Driver = d =>
                            /\ out[i].QualiPosition = PositionIn(event.quali_results, d)
                            /\ out[i].FinishPosition = PositionIn(event.race_results, d)
        /\ \A i \in 1..(Len(out) - 1) : out[i].QualiPosition < out[i + 1].QualiPosition

\* C8 witness: two rows, in the order of qualifying, which is neither the
\* order of the strategy table nor the order of the race.
C8_Witness ==
    /\ Returned(sorted_merged_df)
    /\ Len(sorted_merged_df.df) = 2
    /\ sorted_merged_df.df[1].Driver # strategy_table[1].Driver
    /\ sorted_merged_df.df[1].FinishPosition = 2

\* the i-th smallest element of a set of numbers
RECURSIVE Ascending(_)
Ascending(S) ==
    IF S = {} THEN <<>>
    ELSE LET m == CHOOSE x \in S : \A y \in S : x <= y
         IN <<m>> \o Ascending(S \ {m})

CompoundOfStint(d, stint) == (CHOOSE l \in LapsOf(d) : l.Stint = stint).Compound

\* C9: CompoundStrategy lists the compounds of the driver's stints in
\* ascending stint number, one entry per stint: equal compounds of consecutive
\* stints are not collapsed and the order is not that of the compound names.
C9_CompoundsInStintOrder ==
    sorted_merged_df.called =>
        /\ \A i \in DOMAIN strategy_table :
              LET d == strategy_table[i].Driver
                  stints == Ascending(StintsOf(d))
              IN strategy_table[i].CompoundStrategy
                    = [k \in DOMAIN stints |-> CompoundOfStint(d, stints[k])]
        /\ \A i \in DOMAIN sorted_merged_df.df :
              \E j \in DOMAIN strategy_table :
                  /\ strategy_table[j].Driver = sorted_merged_df.df[i].Driver
                  /\ strategy_table[j].CompoundStrategy
                        = sorted_merged_df.df[i].CompoundStrategy

\* C9 witness: one driver ran two stints on the same compound, the other a
\* SOFT stint followed by a HARD one.
C9_Witness ==
    /\ sorted_merged_df.called
    /\ \E i, j \in DOMAIN strategy_table :
          /\ strategy_table[i].CompoundStrategy = <<"SOFT", "SOFT">>
          /\ strategy_table[j].CompoundStrategy = <<"SOFT", "HARD">>

(***************************************************************************)
(* Claims about the historical engine (SpecHistory).                       *)
(***************************************************************************)
MatchingEvents ==
    {i \in DOMAIN snapshot.schedule :
        InRange(snapshot.schedule[i].EventDate, snapshot.start_year, snapshot.end_year)}

MatchingWins ==
    {i \in DOMAIN snapshot.race_winners :
        InRange(snapshot.race_winners[i].Season, snapshot.start_year, snapshot.end_year)}

\* C10 (as claimed): when the year range matches no row of a snapshot
\* (start_year > end_year included), the aggregation over that snapshot
\* returns, with an empty result, and raises nothing.
C10_EmptyRangeEmptyResult ==
    /\ (country_counts_df.called /\ MatchingEvents = {}) =>
          (country_counts_df.raised = "" /\ country_counts_df.df = <<>>)
    /\ (team_wins.called /\ MatchingWins = {}) =>
          (team_wins.raised = "" /\ team_wins.df = <<>>)

\* the distinct events of a country inside the year range: a row repeated
\* for the same event is one event
DistinctEvents(country) ==
    {snapshot.schedule[i] : i \in
        {j \in DOMAIN snapshot.schedule :
            /\ snapshot.schedule[j].Country = country
            /\ snapshot.start_year <= snapshot.schedule[j].EventDate
            /\ snapshot.schedule[j].EventDate <= snapshot.end_year}}

\* C11 (as claimed): a returned country count has exactly one row for every
\* country that resolves to an ISO code and has an event in the year range,
\* carrying the number of DISTINCT events of that country in the range and
\* the code; countries that do not resolve have no row.
C11_DistinctEventCounts ==
    Returned(country_counts_df) =>
        /\ \A c \in Countries :
              (get_iso_code(c) # None /\ DistinctEvents(c) # {}) =>
                 /\ Cardinality({i \in DOMAIN country_counts_df.df :
                                    country_counts_df.df[i].Country = c}) = 1
                 /\ \E i \in DOMAIN country_counts_df.df :
                       country_counts_df.df[i] =
                          [Country |-> c, Count |-> Cardinality(DistinctEvents(c)),
                           ISO |-> get_iso_code(c)]
        /\ \A i \in DOMAIN country_counts_df.df :
              /\ get_iso_code(country_counts_df.df[i].Country) # None
              /\ DistinctEvents(country_counts_df.df[i].Country) # {}

\* the rows of the winners snapshot that name the team, seasons from
\* start_year to end_year with both bounds included
WinsOf(team_name) ==
    Cardinality({i \in DOMAIN snapshot.race_winners :
                    /\ snapshot.race_winners[i].Team = team_name
                    /\ snapshot.start_year <= snapshot.race_winners[i].Season
                    /\ snapshot.race_winners[i].Season <= snapshot.end_year})

\* C12: after plot_race_wins_per_team, every team with a win in the inclusive
\* year range has exactly one bar carrying its number of wins in the range,
\* no other team has a bar, and no bar precedes a bar with strictly more wins.
C12_WinsPerTeamDescending ==
    team_wins.called =>
        /\ \A t \in Teams :
              WinsOf(t) > 0 =>
                 /\ Cardinality({i \in DOMAIN team_wins.df : team_wins.df[i].Team = t}) = 1
                 /\ \E i \in DOMAIN team_wins.df :
                       team_wins.df[i].Team = t /\ team_wins.df[i].Wins = WinsOf(t)
        /\ \A i \in DOMAIN team_wins.df : WinsOf(team_wins.df[i].Team) > 0
        /\ \A i, j \in DOMAIN team_wins.df :
              i < j => team_wins.df[i].Wins >= team_wins.df[j].Wins

\* two teams with different numbers of wins, one win in the first and one in
\* the last season of the range
C12_Witness ==
    /\ Returned(team_wins)
    /\ snapshot.start_year < snapshot.end_year
    /\ \E i, j \in DOMAIN team_wins.df : team_wins.df[i].Wins > team_wins.df[j].Wins
    /\ \E i, j \in DOMAIN snapshot.race_winners :
          /\ snapshot.race_winners[i].Season = snapshot.start_year
          /\ snapshot.race_winners[j].Season = snapshot.end_year

\* C13: when the colour lookup fails for a team, its bar gets the default
\* colour and keeps its win count; every other bar carries its own looked-up
\* colour; the call returns with a bar for every team that won in the range.
C13_ColorFailureIsolated ==
    (team_wins.called /\ \E t \in Teams : WinsOf(t) > 0) =>
        /\ team_wins.raised = ""
        /\ Len(team_wins.df) = Cardinality({t \in Teams : WinsOf(t) > 0})
        /\ \A t \in Teams :
              WinsOf(t) > 0 =>
                 \E i \in DOMAIN team_wins.df :
                    team_wins.df[i] =
                       [Team |-> t, Wins |-> WinsOf(t),
                        Color |-> IF team_color(t).raised THEN "white"
                                  ELSE team_color(t).color]

\* a bar whose lookup failed is followed by a bar whose lookup succeeded
C13_Witness ==
    /\ Returned(team_wins)
    /\ \E i, j \in DOMAIN team_wins.df :
          /\ i < j
          /\ team_color(team_wins.df[i].Team).raised
          /\ team_wins.df[i].Color = "white"
          /\ ~team_color(team_wins.df[j].Team).raised
          /\ team_wins.df[j].Color = team_color(team_wins.df[j].Team).color

DateOf(entry) ==
    LET sched == calendar[entry.year]
        i == CHOOSE k \in DOMAIN sched : sched[k].EventName = entry.EventName
    IN sched[i].EventDate

\* C18: the list of events_of_last_n_year(n) holds exactly the events of the
\* years current_year - n .. current_year whose date is strictly earlier
\* than now minus one day, each once, later years first and, inside a year,
\* later dates first.
C18_PastEventsMostRecentFirst ==
    event_name_list.called =>
        LET list == event_name_list.list
            now == event_name_list.now
            current_year == now \div (TicksPerDay * DaysPerYear)
        IN /\ \A y \in DOMAIN calendar : \A k \in DOMAIN calendar[y] :
                 (\E i \in DOMAIN list :
                     list[i] = [year |-> y, EventName |-> calendar[y][k].EventName])
                 <=> /\ current_year - event_name_list.n_years <= y
                     /\ y <= current_year
                     /\ calendar[y][k].EventDate < now - TicksPerDay
           /\ \A i, j \in DOMAIN list :
                 i < j => /\ list[i] # list[j]
                          /\ list[i].year >= list[j].year
                          /\ list[i].year = list[j].year =>
                                DateOf(list[i]) > DateOf(list[j])
           /\ \A i \in DOMAIN list :
                 \E k \in DOMAIN calendar[list[i].year] :
                     calendar[list[i].year][k].EventName = list[i].EventName

\* two events of one year and an event of another year are listed, and an
\* event dated exactly one day before now is left out
C18_Witness ==
    /\ event_name_list.called
    /\ \E i, j \in DOMAIN event_name_list.list :
          i < j /\ event_name_list.list[i].year = event_name_list.list[j].year
    /\ \E i, j \in DOMAIN event_name_list.list :
          event_name_list.list[i].year > event_name_list.list[j].year
    /\ \E y \in DOMAIN calendar : \E k \in DOMAIN calendar[y] :
          /\ calendar[y][k].EventDate = event_name_list.now - TicksPerDay
          /\ \A i \in DOMAIN event_name_list.list :
                event_name_list.list[i] # [year |-> y, EventName |-> calendar[y][k].EventName]

(***************************************************************************)
(* Claims about the sample sets of the corner averages (SpecCorners).      *)
(***************************************************************************)
\* the reference distance of the last corner that has a row, 0 without rows
LastClosedDistance(df, corners) ==
    IF df = <<>> THEN 0
    ELSE LET k == CHOOSE c \in DOMAIN corners :
                     corners[c].Number = df[Len(df)].corner_number
         IN corners[k].Distance

\* C19 (as claimed): in a returned table the sample sets of different rows
\* are pairwise disjoint, every sample located before the reference distance
\* of the last corner with a row (a sample at distance 0 included) is in the
\* average of exactly one row, and a sample past the last corner of the
\* circuit is in none.
C19_SamplesPartitioned ==
    Returned(avg_speed_df["D1"]) =>
        LET averaged == AveragedSamples(session, "D1")
            tel == session.telemetry["D1"]
            corners == session.corners
            last == LastClosedDistance(avg_speed_df["D1"].df, corners)
        IN /\ \A a, b \in DOMAIN averaged :
                 a # b => averaged[a].samples \cap averaged[b].samples = {}
           /\ \A i \in DOMAIN tel :
                 tel[i].Distance < last =>
                    Cardinality({a \in DOMAIN averaged : i \in averaged[a].samples}) = 1
           /\ \A i \in DOMAIN tel :
                 (corners # <<>> /\ tel[i].Distance > corners[Len(corners)].Distance) =>
                    \A a \in DOMAIN averaged : i \notin averaged[a].samples

(***************************************************************************)
(* The single ordered sweep of the specification (section 4.2): one pass   *)
(* over the samples; while the sample at hand lies past the corner at      *)
(* hand, the interval is closed with average = sum / count, or undefined   *)
(* if count = 0, and the next corner is taken with fresh accumulators;     *)
(* otherwise the sample is added to the open interval.  Samples past the   *)
(* last corner are discarded.                                              *)
(***************************************************************************)
RECURSIVE Sweep(_, _, _, _, _)
Sweep(telemetry, corners, i, k, st) ==
    IF i > Len(telemetry) \/ k > Len(corners) THEN st.rows
    ELSE IF telemetry[i].Distance > corners[k].Distance
         THEN Sweep(telemetry, corners, i, k + 1,
                 [sum |-> 0, count |-> 0,
                  rows |-> Append(st.rows,
                     [corner_number |-> corners[k].Number,
                      avg_speed |-> IF st.count = 0 THEN NaN
                                    ELSE Some(Round2(st.sum, st.count))])])
         ELSE Sweep(telemetry, corners, i + 1, k,
                 [st EXCEPT !.sum = @ + telemetry[i].Speed, !.count = @ + 1])

TwoPointerSweep(telemetry, corners) ==
    Sweep(telemetry, corners, 1, 1, [sum |-> 0, count |-> 0, rows |-> <<>>])

\* C20 (as claimed): a returned table has, row by row, the corner numbers
\* and the averages that the sweep of the specification produces for the
\* same telemetry and corners.
C20_SameRowsAsSweep ==
    Returned(avg_speed_df["D1"]) =>
        [i \in DOMAIN avg_speed_df["D1"].df |->
            [corner_number |-> avg_speed_df["D1"].df[i].corner_number,
             avg_speed |-> Some(avg_speed_df["D1"].df[i].avg_speed)]]
        = TwoPointerSweep(session.telemetry["D1"], session.corners)

(***************************************************************************)
(* Claims about the dashboard callbacks (SpecDashboard).                   *)
(***************************************************************************)
\* the inputs a callback cannot work without
RequiredInputs(cb) ==
    CASE cb = "update_drivers" -> {"session", "event"}
      [] cb = "telemetry-comparison-graph" -> {"driver1", "driver2", "session", "event"}
      [] cb = "speed-comparison-graph" -> {"driver1", "driver2", "session", "event"}
      [] cb = "laptime-compound-graph" ->
            {"driver1", "driver2", "mode", "session", "event"}
      [] cb = "race_per_country_map" -> {"start_year", "end_year"}
      [] cb = "race_wins_per_team_map" -> {"start_year", "end_year"}
      [] cb = "parallel-coordinates-graph" -> {"event"}

AllSet(cb) == \A f \in RequiredInputs(cb) : selection[f] # "None"

\* C14: a callback run while one of its required inputs is unset raises
\* nothing, loads no session and derives nothing; a graph callback returns
\* the placeholder figure and update_drivers returns empty option lists.
C14_UnsetInputGivesPlaceholder ==
    \A cb \in DOMAIN panels :
        (panels[cb].fired /\ ~AllSet(cb)) =>
            /\ panels[cb].raised = ""
            /\ panels[cb].loads = 0
            /\ ~panels[cb].derived
            /\ panels[cb].options = <<>>
            /\ cb # "update_drivers" => panels[cb].figure = "black"

\* with the mode and the session unset and every other input chosen, the
\* lap time panel and update_drivers have run
C14_Witness ==
    /\ DOMAIN panels # {}
    /\ panels["laptime-compound-graph"].fired
    /\ panels["update_drivers"].fired
    /\ \A f \in DOMAIN selection : selection[f] = "None" <=> f \in {"mode", "session"}

\* C15 (as claimed): a callback whose session load fails returns a
\* placeholder figure and raises nothing, and the two historical panels
\* show their charts whatever happened to the load.
C15_LoadFailureGivesPlaceholder ==
    /\ \A cb \in DOMAIN panels \cap
                 {"telemetry-comparison-graph", "speed-comparison-graph",
                  "laptime-compound-graph"} :
          (panels[cb].fired /\ AllSet(cb) /\ selection.event \in UnavailableEvents) =>
              (panels[cb].raised = "" /\ panels[cb].figure = "black")
    /\ \A cb \in DOMAIN panels \cap {"race_per_country_map", "race_wins_per_team_map"} :
          (panels[cb].fired /\ AllSet(cb)) =>
              (panels[cb].raised = "" /\ panels[cb].figure \notin {"", "black"})

\* C16 (as claimed): with the session loaded and a selected driver without
\* a valid lap, the telemetry comparison and the corner speed comparison
\* return a placeholder figure and raise nothing.
C16_NoFastestLapGivesPlaceholder ==
    \A cb \in DOMAIN panels \cap {"telemetry-comparison-graph", "speed-comparison-graph"} :
        (/\ panels[cb].fired
         /\ AllSet(cb)
         /\ selection.event \notin UnavailableEvents
         /\ (selection.driver1 \in NoValidLap \/ selection.driver2 \in NoValidLap)) =>
            (panels[cb].raised = "" /\ panels[cb].figure = "black")

(***************************************************************************)
(* Claims about the deduplication of the strategy table (SpecEvent).       *)
(***************************************************************************)
\* drop_duplicates(subset=["Driver"], keep="last")
KeepLast(df) ==
    SelectSeq([i \in DOMAIN df |-> [row |-> df[i],
                                    last |-> \A j \in DOMAIN df :
                                                df[j].Driver = df[i].Driver => j <= i]],
              LAMBDA r : r.last)

\* C21: the deduplicated strategy table has exactly one row for every driver
\* of the session with a grouped stint and none for any other; the candidate
\* rows of one driver all carry the same Stops and CompoundStrategy, and
\* keeping the last candidate of every driver instead of the first gives the
\* same table.
C21_DeduplicationIndependentOfKeep ==
    sorted_merged_df.called =>
        /\ \A d \in Drivers :
              Cardinality({i \in DOMAIN strategy_table : strategy_table[i].Driver = d})
                 = IF InStrategy(d) THEN 1 ELSE 0
        /\ \A i, j \in DOMAIN candidate_rows :
              candidate_rows[i].Driver = candidate_rows[j].Driver =>
                 /\ candidate_rows[i].Stops = candidate_rows[j].Stops
                 /\ candidate_rows[i].CompoundStrategy = candidate_rows[j].CompoundStrategy
        /\ LET kept == KeepLast(candidate_rows)
           IN strategy_table = [i \in DOMAIN kept |-> kept[i].row]

\* two drivers in the table, one of them with candidates from two stints
C21_Witness ==
    /\ sorted_merged_df.called
    /\ Len(strategy_table) = 2
    /\ Len(candidate_rows) > Len(strategy_table)
    /\ \E i \in DOMAIN strategy_table : strategy_table[i].Stops >= 1

====
